---------------------------- MODULE Spec2Model ----------------------------
(***************************************************************************)
(* A model of the robot emulation: core/robot.py (Robot) and               *)
(* core/world.py (RobotWorld).                                              *)
(*                                                                         *)
(* Numbers are fixed point.  Lengths are millimetres, motor powers are     *)
(* thousandths (1.0 is 1000), speeds are mm/s, angles are centiradians     *)
(* (pi is 314, 2*pi is 628), time deltas are deciseconds.  Cos and Sin     *)
(* return thousandths.                                                      *)
(***************************************************************************)
EXTENDS Integers, Sequences, FiniteSets, TLC

VARIABLES
    world_size,     \* RobotWorld.world_size (mm)
    robots,         \* RobotWorld.robots: sequence of Robot records
    running,        \* RobotWorld.running
    update_thread,  \* RobotWorld.update_thread: 0 is None, else an index of threads
    threads,        \* every thread start() has created, each running _update_loop
    mqtt,           \* the paho client: its network loop and its connection
    subs,           \* the topics the client has subscribed to
    callerPc,       \* where the caller of start() / stop() is
    lastCall,       \* the last of start() / stop() the caller has called
    handler,        \* the callback thread inside _on_mqtt_message
    passes,         \* passes of the update loop begun so far
    msgs,           \* messages delivered so far
    whole,          \* per robot: the motor pairs left by completed process_command calls
    lastReadWhole,  \* whether the motor pair the last update_position read was a whole one
    lastMsg,        \* the message _on_mqtt_message finished last, if its topic was subscribed to
    poseAtStop,     \* the robots' poses when stop() last returned
    published,      \* per robot: status messages published so far
    op              \* the last call of RobotSpec

vars == <<world_size, robots, running, update_thread, threads, mqtt, subs,
          callerPc, lastCall, handler, passes, msgs, whole, lastReadWhole, lastMsg,
          poseAtStop, published, op>>

-----------------------------------------------------------------------------
(* Units and the program's constants. *)

\* math.pi in centiradians
Pi == 314

TwoPi == 2 * Pi

\* Robot.wheel_base: 0.2 m, in mm
WheelBase == 200

\* Robot.max_speed: 1.0 m/s
MaxSpeed == 1

\* the threshold 0.001 m/s of update_position, in mm/s
Epsilon == 1

\* full motor power, 1.0, in thousandths
FullPower == 1000

\* thousandths: the scale of Cos and Sin
TrigScale == 1000

Abs(a) == IF a < 0 THEN -a ELSE a

Max(a, b) == IF a >= b THEN a ELSE b

Min(a, b) == IF a <= b THEN a ELSE b

\* a / b rounded to the nearest integer (b > 0): the fixed-point image of a float quotient
RoundDiv(a, b) == (2 * a + b) \div (2 * b)

\* sin on [0, pi], Bhaskara's rational approximation, exact at 0, pi/2 and pi
SinHalf(x) == LET p == x * (Pi - x)
              IN  RoundDiv(16 * TrigScale * p, 5 * Pi * Pi - 4 * p)

\* math.sin of any angle
Sin(h) == LET r == h % TwoPi
          IN  IF r <= Pi THEN SinHalf(r) ELSE -SinHalf(r - Pi)

\* math.cos of any angle
Cos(h) == Sin(h + Pi \div 2)


-----------------------------------------------------------------------------
(* Robot.process_command *)

\* A value of a JSON field as float() sees it: a number (thousandths), a missing
\* key (get's default 0), NaN, something float() rejects with ValueError or
\* TypeError ("x", null, a list), or an integer too large for a float (OverflowError).
Num(v) == [t |-> "num", v |-> v]

Absent == [t |-> "absent", v |-> 0]

NaN == [t |-> "nan", v |-> 0]

Bad == [t |-> "bad", v |-> 0]

Huge == [t |-> "huge", v |-> 0]

\* A decoded payload: a dict with its left and right fields, or anything else
\* (a string token; a JSON number, list or null compares unequal to every token).
Dict(l, r) == [kind |-> "dict", left |-> l, right |-> r, tok |-> ""]

Token(s) == [kind |-> "str", left |-> Absent, right |-> Absent, tok |-> s]

\* the exception float(val) raises: none, one process_command catches, one it does not
FloatExc(val) == CASE val.t = "bad"  -> "caught"
                   [] val.t = "huge" -> "escaped"
                   [] OTHER          -> "none"

\* mutant: the upper bound of the clamp is lost
ClampPowerNoUpper(val) == IF val.t = "nan" THEN FullPower ELSE Max(-FullPower, val.v)

\* max(-1.0, min(1.0, float(val))); min(1.0, nan) is 1.0 in Python
ClampPower(val) == IF val.t = "nan"
                   THEN FullPower
                   ELSE Max(-FullPower, Min(FullPower, val.v))

\* the first assignment of process_command: what it raises, what it stores
LeftWrite(command) ==
    IF command.kind = "dict"
    THEN [exc |-> FloatExc(command.left), val |-> ClampPower(command.left)]
    ELSE [exc |-> "none",
          val |-> CASE command.tok = "l" -> FullPower
                    [] command.tok = "r" -> 0
                    [] command.tok = "s" -> 0
                    [] OTHER             -> FullPower]

\* the second assignment of process_command
RightWrite(command) ==
    IF command.kind = "dict"
    THEN [exc |-> FloatExc(command.right), val |-> ClampPower(command.right)]
    ELSE [exc |-> "none",
          val |-> CASE command.tok = "l" -> 0
                    [] command.tok = "r" -> FullPower
                    [] command.tok = "s" -> 0
                    [] OTHER             -> FullPower]

\* One whole call: the robot afterwards, and the exception that left the call
\* ("none" also when it was caught and logged inside).
ProcessCommand(r, command) ==
    LET a == LeftWrite(command)
        b == RightWrite(command)
    IN  IF a.exc # "none"
        THEN [robot |-> r, exc |-> IF a.exc = "escaped" THEN "OverflowError" ELSE "none"]
        ELSE LET r1 == [r EXCEPT !.left_motor_power = a.val]
             IN  IF b.exc # "none"
                 THEN [robot |-> r1,
                       exc |-> IF b.exc = "escaped" THEN "OverflowError" ELSE "none"]
                 ELSE [robot |-> [r1 EXCEPT !.right_motor_power = b.val], exc |-> "none"]

-----------------------------------------------------------------------------
(* Robot.update_position *)

\* velocity * trig * dt for velocity = vsum / 2 mm/s, trig in thousandths, dt in ds
Travel(vsum, trig, dt) == RoundDiv(vsum * trig * dt, 2 * TrigScale * 10)

\* omega * dt in centiradians for omega = vdiff / wheel_base rad/s, dt in ds
Turn(vdiff, dt) == RoundDiv(vdiff * dt * 100, WheelBase * 10)

\* the differential drive step
Kinematics(r, dt) ==
    LET v_left == r.left_motor_power * MaxSpeed
        v_right == r.right_motor_power * MaxSpeed
    IN  IF Abs(v_left - v_right) < Epsilon
        THEN [r EXCEPT !.x = r.x + Travel(v_left + v_right, Cos(r.orientation), dt),
                       !.y = r.y + Travel(v_left + v_right, Sin(r.orientation), dt)]
        ELSE IF Abs(v_right - v_left) > Epsilon
             THEN LET o == r.orientation + Turn(v_right - v_left, dt)
                  IN  [r EXCEPT !.orientation = o,
                                !.x = r.x + Travel(v_left + v_right, Cos(o), dt),
                                !.y = r.y + Travel(v_left + v_right, Sin(o), dt)]
             ELSE r

\* mutant: the heading is kept in [-pi, pi) instead
NormalizeSigned(r) == [r EXCEPT !.orientation = ((r.orientation + Pi) % TwoPi) - Pi]

\* orientation % (2 * math.pi)
Normalize(r) == [r EXCEPT !.orientation = r.orientation % TwoPi]

\* mutant: the far wall is not checked
BounceXNoFarWall(r, ws) ==
    IF r.x < 0 THEN [r EXCEPT !.x = 0, !.orientation = Pi - r.orientation] ELSE r

\* bounce off the walls x = 0 and x = world_size
BounceX(r, ws) ==
    IF r.x < 0
    THEN [r EXCEPT !.x = 0, !.orientation = Pi - r.orientation]
    ELSE IF r.x > ws
         THEN [r EXCEPT !.x = ws, !.orientation = Pi - r.orientation]
         ELSE r

\* a bounce off the walls y = 0 and y = world_size that clamps y but keeps the heading
BounceYKeepsHeading(r, ws) ==
    IF r.y < 0 THEN [r EXCEPT !.y = 0] ELSE IF r.y > ws THEN [r EXCEPT !.y = ws] ELSE r

\* bounce off the walls y = 0 and y = world_size
BounceY(r, ws) ==
    IF r.y < 0
    THEN [r EXCEPT !.y = 0, !.orientation = -r.orientation]
    ELSE IF r.y > ws
         THEN [r EXCEPT !.y = ws, !.orientation = -r.orientation]
         ELSE r

\* One whole call of update_position(dt).
UpdatePosition(r, dt) == BounceY(BounceX(Normalize(Kinematics(r, dt)), r.world_size), r.world_size)

-----------------------------------------------------------------------------
(* One Robot, called from one thread: process_command and update_position as *)
(* whole calls, on every input of the sets below.                            *)

\* update_position calls in one behaviour of RobotSpec
MaxTicks == 2

\* the arena of RobotSpec: 2 m
RobotWorldSize == 2000

\* where a Robot is constructed: mid arena, on the wall x = world_size, on the wall
\* y = 0, in the corner of the two
RobotStarts == {<<1000, 1000>>, <<RobotWorldSize, 1000>>, <<1000, 0>>, <<RobotWorldSize, 0>>}

\* initial orientations, in [0, 2 pi)
RobotHeadings == {0, Pi \div 2, 400}

\* the time deltas of update_position: the clock stepped back, no time, 1 s
RobotDts == {-10, 0, 10}

\* the commands of process_command
RobotCommands ==
    { Dict(Num(5000), Num(-5000)), Dict(Num(500), Num(500)), Dict(Num(1), Num(0)),
      Dict(NaN, Absent), Dict(Num(1000), Bad), Dict(Bad, Num(700)), Dict(Huge, Num(700)),
      Token("l"), Token("r"), Token("s"), Token("go") }

\* Robot.__init__
NewRobot(robot_id, x, y, orientation, ws) ==
    [id |-> robot_id, x |-> x, y |-> y, orientation |-> orientation, world_size |-> ws,
     left_motor_power |-> 0, right_motor_power |-> 0]

NoOp == [kind |-> "init", command |-> Token("s"), dt |-> 0, exc |-> "none"]

NoMsg == [robot_id |-> -1, command |-> Token("s")]

IdleHandler == [pc |-> "idle", robot_id |-> 0, command |-> Token("s"), subscribed |-> FALSE,
                form |-> "", text |-> ""]

Poses(rs) == [i \in DOMAIN rs |-> <<rs[i].x, rs[i].y, rs[i].orientation>>]

RobotInit ==
    /\ world_size = RobotWorldSize
    /\ \E p \in RobotStarts, h \in RobotHeadings :
          robots = <<NewRobot(0, p[1], p[2], h, world_size)>>
    /\ running = FALSE
    /\ update_thread = 0
    /\ threads = <<>>
    /\ mqtt = [loop |-> "none", conn |-> "none"]
    /\ subs = {}
    /\ callerPc = "idle"
    /\ lastCall = "none"
    /\ handler = IdleHandler
    /\ passes = 0
    /\ msgs = 0
    /\ whole = <<{<<0, 0>>}>>
    /\ lastReadWhole = TRUE
    /\ lastMsg = NoMsg
    /\ poseAtStop = Poses(robots)
    /\ published = <<0>>
    /\ op = NoOp

worldVars == <<world_size, running, update_thread, threads, mqtt, subs, callerPc,
               lastCall, handler, msgs, whole, lastReadWhole, lastMsg, poseAtStop,
               published>>

\* robot.process_command(command)
RobotProcessCommand ==
    \E command \in RobotCommands :
        LET res == ProcessCommand(robots[1], command)
        IN  /\ robots' = <<res.robot>>
            /\ op' = [kind |-> "command", command |-> command, dt |-> 0, exc |-> res.exc]
            /\ UNCHANGED <<worldVars, passes>>

\* robot.update_position(dt)
RobotUpdatePosition ==
    \E dt \in RobotDts :
        /\ passes < MaxTicks
        /\ robots' = <<UpdatePosition(robots[1], dt)>>
        /\ op' = [kind |-> "tick", command |-> Token("s"), dt |-> dt, exc |-> "none"]
        /\ passes' = passes + 1
        /\ UNCHANGED worldVars

RobotNext == RobotProcessCommand \/ RobotUpdatePosition

RobotSpec == RobotInit /\ [][RobotNext]_vars

-----------------------------------------------------------------------------
(* Claims about one Robot, checked under RobotSpec. *)

Robot1 == robots[1]

\* a structured command with a field float() rejects
Malformed(command) ==
    command.kind = "dict" /\ (command.left.t = "bad" \/ command.right.t = "bad")

\* C3: a structured command with a field that is no number makes process_command
\* return without raising and leaves both motor powers as they were before the call.
C3_MalformedKeepsMotors ==
    [][(op'.kind = "command" /\ Malformed(op'.command))
        => /\ op'.exc = "none"
           /\ robots'[1].left_motor_power = Robot1.left_motor_power
           /\ robots'[1].right_motor_power = Robot1.right_motor_power]_vars

\* C7: every robot's x and y lie in [0, world_size], initially and after every
\* command and every tick.
C7_ArenaContainment ==
    \A i \in DOMAIN robots :
        /\ 0 <= robots[i].x /\ robots[i].x <= robots[i].world_size
        /\ 0 <= robots[i].y /\ robots[i].y <= robots[i].world_size

\* C7 witness: a tick has carried the robot past the wall x = 0 and it was put back on it.
C7_Witness ==
    /\ op.kind = "tick"
    /\ Robot1.x = 0
    /\ Robot1.orientation < 0
    /\ Robot1.left_motor_power # 0

\* C8: after every call of update_position the heading lies in [0, 2 pi).
C8_HeadingNormalized ==
    op.kind = "tick" => (0 <= Robot1.orientation /\ Robot1.orientation < TwoPi)

\* the bound nearest to a value outside [-1.0, 1.0], the value itself inside
Nearest(v) == IF v > FullPower THEN FullPower ELSE IF v < -FullPower THEN -FullPower ELSE v

\* C9: both motor powers are in [-1.0, 1.0] after any sequence of process_command
\* calls, and a numeric field of a structured command is stored as the nearest
\* value of that range.
C9_MotorPowerClamped ==
    /\ \A i \in DOMAIN robots :
          /\ -FullPower <= robots[i].left_motor_power
          /\ robots[i].left_motor_power <= FullPower
          /\ -FullPower <= robots[i].right_motor_power
          /\ robots[i].right_motor_power <= FullPower
    /\ (op.kind = "command" /\ op.command.kind = "dict")
          => /\ op.command.left.t = "num"
                  => Robot1.left_motor_power = Nearest(op.command.left.v)
             /\ (op.command.left.t = "num" /\ op.command.right.t = "num")
                  => Robot1.right_motor_power = Nearest(op.command.right.v)

\* C9 witness: {left: 5, right: -5} was processed and the powers are (1.0, -1.0).
C9_Witness ==
    /\ op.kind = "command"
    /\ op.command = Dict(Num(5000), Num(-5000))
    /\ Robot1.left_motor_power = FullPower
    /\ Robot1.right_motor_power = -FullPower

\* a tick with dt > 0 of a robot whose motor powers are equal
StraightTick == op'.kind = "tick" /\ op'.dt > 0
                /\ Robot1.left_motor_power = Robot1.right_motor_power

\* the advance of this tick leaves the robot inside the arena: no wall is crossed
StaysInside == LET k == Kinematics(Robot1, op'.dt)
               IN  /\ 0 <= k.x /\ k.x <= Robot1.world_size
                   /\ 0 <= k.y /\ k.y <= Robot1.world_size

\* C10 as claimed: with left == right, update_position(dt), dt > 0, leaves the
\* heading unchanged.
C10_StraightKeepsHeading ==
    [][StraightTick => robots'[1].orientation = Robot1.orientation]_vars

\* C10 amended: with left == right and no wall crossed by the advance,
\* update_position(dt), dt > 0, leaves the heading unchanged modulo 2 pi: the new
\* heading is the old one reduced to [0, 2 pi).
C10_StraightKeepsHeadingInside ==
    [][(StraightTick /\ StaysInside)
        => robots'[1].orientation = Robot1.orientation % TwoPi]_vars

\* C10 witness: a second tick with dt > 0 has moved a robot with equal, non-zero
\* motor powers to a place strictly inside the arena.
C10_Witness ==
    /\ op.kind = "tick" /\ op.dt > 0
    /\ passes = 2
    /\ Robot1.left_motor_power = Robot1.right_motor_power
    /\ Robot1.left_motor_power # 0
    /\ 0 < Robot1.x /\ Robot1.x < Robot1.world_size
    /\ 0 < Robot1.y /\ Robot1.y < Robot1.world_size

\* the robot's motors are off
Stopped == Robot1.left_motor_power = 0 /\ Robot1.right_motor_power = 0

\* this step is a call of update_position that leaves x, y and the heading as they were
PoseKept == /\ robots'[1].x = Robot1.x
            /\ robots'[1].y = Robot1.y
            /\ robots'[1].orientation = Robot1.orientation

\* C11: with left == right == 0, a call of update_position leaves x, y and the
\* heading exactly as they were, however many calls are made.
C11_StoppedRobotStays ==
    [][(op'.kind = "tick" /\ Stopped) => PoseKept]_vars

\* the last call was process_command with the legacy token "l" or "r"
LegacyTurn == op.kind = "command" /\ op.command \in {Token("l"), Token("r")}

\* C14: after "l" or "r" the wheel powers have equal magnitude and opposite sign,
\* the right wheel forward for "l" and the left wheel forward for "r", and a tick
\* that follows changes the heading and leaves x and y as they were.
C14_LegacyTurnsInPlace ==
    /\ [](LegacyTurn
            => /\ Robot1.left_motor_power + Robot1.right_motor_power = 0
               /\ op.command = Token("l") => Robot1.right_motor_power > 0
               /\ op.command = Token("r") => Robot1.left_motor_power > 0)
    /\ [][(LegacyTurn /\ op'.kind = "tick")
            => (robots'[1].x = Robot1.x /\ robots'[1].y = Robot1.y)]_vars

\* C16: update_position(dt) with dt <= 0 leaves x, y and the heading unchanged.
C16_NonPositiveDtKeepsPose ==
    [][(op'.kind = "tick" /\ op'.dt <= 0) => PoseKept]_vars

\* the pose of this tick after the advance and the reduction of the heading to
\* [0, 2 pi), before the walls are looked at
Advanced == Normalize(Kinematics(Robot1, op'.dt))

CrossedX == Advanced.x < 0 \/ Advanced.x > Robot1.world_size

CrossedY == Advanced.y < 0 \/ Advanced.y > Robot1.world_size

\* the wall a coordinate has crossed
Wall(v) == IF v < 0 THEN 0 ELSE Robot1.world_size

\* C17 as claimed: when the advance carries x outside [0, world_size], x ends on the
\* crossed wall and the heading is pi minus the heading of the advance; when it
\* carries y outside, y ends on the crossed wall and the heading is negated.
C17_WallBounce ==
    [][(op'.kind = "tick")
        => /\ CrossedX => /\ robots'[1].x = Wall(Advanced.x)
                          /\ robots'[1].orientation = Pi - Advanced.orientation
           /\ CrossedY => /\ robots'[1].y = Wall(Advanced.y)
                          /\ robots'[1].orientation = -Advanced.orientation]_vars

\* C17 amended: a coordinate the advance carries outside [0, world_size] ends on the
\* crossed wall; with h the heading of the advance reduced to [0, 2 pi), the heading
\* ends as pi - h when only x crossed, as -h when only y crossed, and as h - pi when
\* both crossed in the same tick.
C17_WallBounceEachWall ==
    [][(op'.kind = "tick")
        => /\ CrossedX => robots'[1].x = Wall(Advanced.x)
           /\ CrossedY => robots'[1].y = Wall(Advanced.y)
           /\ (CrossedX /\ ~CrossedY) => robots'[1].orientation = Pi - Advanced.orientation
           /\ (CrossedY /\ ~CrossedX) => robots'[1].orientation = -Advanced.orientation
           /\ (CrossedX /\ CrossedY) => robots'[1].orientation = Advanced.orientation - Pi]_vars

\* C17 witness: a robot built on the wall x = world_size with heading 0 was driven
\* forward for one tick and is on that wall with heading pi.
C17_Witness ==
    /\ op.kind = "tick" /\ op.dt > 0
    /\ passes = 1
    /\ Robot1.left_motor_power = Robot1.right_motor_power
    /\ Robot1.left_motor_power > 0
    /\ Robot1.x = Robot1.world_size
    /\ Robot1.y = 1000
    /\ Robot1.orientation = Pi

-----------------------------------------------------------------------------
(* RobotWorld: construction *)

\* num_robots of the modelled world
NumRobots == 2

\* passes of the update loop in one behaviour
MaxPasses == 2

\* messages delivered in one behaviour
MaxMsgs == 2

\* threads start() creates in one behaviour
MaxThreads == 2

\* world_size: 10.0 m, the default
DefaultWorldSize == 10000

\* random.uniform(0, 2 * math.pi): the initial orientation tried
InitHeadings == {400}

\* math.ceil(math.sqrt(n))
CeilSqrt(n) == CHOOSE g \in 1..n : g * g >= n /\ (g - 1) * (g - 1) < n

\* _initialize_robots: robot i of num_robots (i from 0) with the orientation drawn for it
InitialRobot(i, num_robots, ws, orientation) ==
    LET grid_size == CeilSqrt(num_robots)
        spacing == RoundDiv(ws, grid_size + 1)
        row == i \div grid_size
        col == i % grid_size
    IN  NewRobot(i, spacing * (col + 1), spacing * (row + 1), orientation, ws)

\* a thread of _update_loop: where it is, the robot of the for loop, its dt, the left
\* speed update_position has read, and the robots whose update_position has returned
\* in this pass
NewThread == [pc |-> "begin", i |-> 0, dt |-> 0, v_left |-> 0, first |-> TRUE,
              advanced |-> {}]

\* RobotWorld.__init__: the robots in formation, and the client either connecting
\* (its network loop started) or not (connect raised: "Continuing without MQTT")
Init ==
    /\ world_size = DefaultWorldSize
    /\ \E hs \in [1..NumRobots -> InitHeadings] :
          robots = [i \in 1..NumRobots |->
                        InitialRobot(i - 1, NumRobots, world_size, hs[i])]
    /\ running = FALSE
    /\ update_thread = 0
    /\ threads = <<>>
    /\ mqtt \in {[loop |-> "running", conn |-> "pending"], [loop |-> "none", conn |-> "none"]}
    /\ subs = {}
    /\ callerPc = "idle"
    /\ lastCall = "none"
    /\ handler = IdleHandler
    /\ passes = 0
    /\ msgs = 0
    /\ whole = [i \in 1..NumRobots |-> {<<0, 0>>}]
    /\ lastReadWhole = TRUE
    /\ lastMsg = NoMsg
    /\ poseAtStop = Poses(robots)
    /\ published = [i \in 1..NumRobots |-> 0]
    /\ op = NoOp

-----------------------------------------------------------------------------
(* RobotWorld: the MQTT callbacks, run by the client's network thread *)

\* the return codes of a CONNACK tried: accepted, refused
ConnectCodes == {0, 5}

\* _on_mqtt_connect
OnMqttConnect ==
    /\ mqtt.loop = "running" /\ mqtt.conn = "pending"
    /\ handler.pc = "idle"
    /\ \E rc \in ConnectCodes :
          IF rc = 0
          THEN /\ subs' = {<<"robots", robots[i].id>> : i \in DOMAIN robots}
               /\ mqtt' = [mqtt EXCEPT !.conn = "connected"]
          ELSE /\ subs' = subs
               /\ mqtt' = [mqtt EXCEPT !.conn = "refused"]
    /\ UNCHANGED <<world_size, robots, running, update_thread, threads, callerPc,
                   lastCall, handler, passes, msgs, whole, lastReadWhole, lastMsg,
                   poseAtStop, published, op>>

\* A payload: a JSON object, a JSON string, or text that is no JSON.
JsonObject(l, r) == [form |-> "object", left |-> l, right |-> r, text |-> ""]

JsonString(s) == [form |-> "string", left |-> Absent, right |-> Absent, text |-> s]

RawText(s) == [form |-> "raw", left |-> Absent, right |-> Absent, text |-> s]

\* a decoding that takes every payload that is no JSON object as its own text, the
\* quotes of a JSON string with it
DecodeAsText(payload) ==
    IF payload.form = "object" THEN Dict(payload.left, payload.right)
    ELSE IF payload.form = "string" THEN Token("quoted")
                                    ELSE Token(payload.text)

\* json.loads(payload), and the payload's own text when that raises JSONDecodeError
Decode(payload) ==
    IF payload.form = "object" THEN Dict(payload.left, payload.right)
                               ELSE Token(payload.text)

\* the payloads delivered
Payloads == { JsonObject(Num(5000), Num(-5000)), JsonObject(Num(1000), Bad), RawText("s"),
              JsonString("s") }

\* the robot ids in a delivered topic: each robot's, and one no robot has
TopicIds == 0..NumRobots

\* The topics of the messages handed to the callback: the subscribed ones, which
\* the broker delivers, and robot/<id>/command, which the callback looks for.
Topics == subs \cup {<<"robot", k>> : k \in TopicIds}

\* a lookup that takes the id for the robot's place in the list
FindRobotByIndex(robot_id) == IF robot_id \in DOMAIN robots THEN robot_id ELSE 0

\* no robot has this id
UnknownId(robot_id) == \A i \in DOMAIN robots : robots[i].id # robot_id

\* what lastMsg keeps of a finished message: the message when its topic was subscribed
\* to or names no robot
Finished(subscribed, robot_id, command) ==
    IF subscribed \/ UnknownId(robot_id)
    THEN [robot_id |-> robot_id, command |-> command]
    ELSE NoMsg

\* the index in robots of the robot with this id, 0 when there is none
FindRobot(robot_id) ==
    IF \E i \in DOMAIN robots : robots[i].id = robot_id
    THEN CHOOSE i \in DOMAIN robots : robots[i].id = robot_id
    ELSE 0

\* the topic test of _on_mqtt_message
TopicAccepted(prefix) == prefix = "robot"

MotorPair(r) == <<r.left_motor_power, r.right_motor_power>>

\* _on_mqtt_message up to and with the first assignment of process_command
OnMqttMessage ==
    /\ mqtt.loop = "running" /\ mqtt.conn = "connected"
    /\ handler.pc = "idle"
    /\ msgs < MaxMsgs
    /\ \E topic \in Topics, payload \in Payloads :
          LET prefix == topic[1]
              robot_id == topic[2]
              command == Decode(payload)
              k == FindRobot(robot_id)
              a == LeftWrite(command)
              msg == Finished(topic \in subs, robot_id, command)
          IN  IF TopicAccepted(prefix) /\ k # 0
              THEN IF a.exc = "none"
                   THEN /\ robots' = [robots EXCEPT ![k].left_motor_power = a.val]
                        /\ handler' = [pc |-> "right", robot_id |-> robot_id,
                                     command |-> command, subscribed |-> topic \in subs,
                                     form |-> payload.form, text |-> payload.text]
                        /\ UNCHANGED <<whole, lastMsg>>
                   ELSE /\ whole' = [whole EXCEPT ![k] = @ \cup {MotorPair(robots[k])}]
                        /\ lastMsg' = msg
                        /\ UNCHANGED <<robots, handler>>
              ELSE /\ lastMsg' = msg
                   /\ UNCHANGED <<robots, handler, whole>>
    /\ msgs' = msgs + 1
    /\ UNCHANGED <<world_size, running, update_thread, threads, mqtt, subs, callerPc,
                   lastCall, passes, lastReadWhole, poseAtStop, published, op>>

\* the second assignment of process_command, and the return of _on_mqtt_message
OnMqttMessageRight ==
    /\ handler.pc = "right"
    /\ LET k == FindRobot(handler.robot_id)
           b == RightWrite(handler.command)
           r == IF b.exc = "none"
                THEN [robots[k] EXCEPT !.right_motor_power = b.val]
                ELSE robots[k]
       IN  /\ robots' = [robots EXCEPT ![k] = r]
           /\ whole' = [whole EXCEPT ![k] = @ \cup {MotorPair(r)}]
    /\ lastMsg' = Finished(handler.subscribed, handler.robot_id, handler.command)
    /\ handler' = IdleHandler
    /\ UNCHANGED <<world_size, running, update_thread, threads, mqtt, subs, callerPc,
                   lastCall, passes, msgs, lastReadWhole, poseAtStop, published, op>>

-----------------------------------------------------------------------------
(* RobotWorld._update_loop, run by each thread start() creates *)

\* current_time - last_time in deciseconds: next to nothing in a thread's first
\* pass, the second that time.sleep(1.0) took in every later one
MeasuredDt(first) == IF first THEN 0 ELSE 10

InPass(t) == threads[t].pc \in {"read_left", "advance", "publish"}

\* The motor pairs of robot i that one whole process_command call leaves: those of
\* the calls that have returned, and that of the call now between its assignments.
WholePairs(i) ==
    whole[i] \cup
        (IF handler.pc = "right" /\ FindRobot(handler.robot_id) = i
         THEN LET b == RightWrite(handler.command)
              IN  {<<robots[i].left_motor_power,
                     IF b.exc = "none" THEN b.val ELSE robots[i].right_motor_power>>}
         ELSE {})

Live(t) == threads[t].pc # "dead"

\* last_time = time.time()
LoopBegin(t) ==
    /\ threads[t].pc = "begin"
    /\ threads' = [threads EXCEPT ![t].pc = "check"]
    /\ UNCHANGED <<world_size, robots, running, update_thread, mqtt, subs, callerPc,
                   lastCall, handler, passes, msgs, whole, lastReadWhole, lastMsg,
                   poseAtStop, published, op>>

\* a loop that does not look at self.running
LoopCheckIgnoresFlag(t) ==
    /\ threads[t].pc = "check"
    /\ passes < MaxPasses
    /\ passes' = passes + 1
    /\ threads' = [threads EXCEPT ![t] =
                       [pc |-> "read_left", i |-> 1, v_left |-> 0,
                        dt |-> MeasuredDt(threads[t].first), first |-> FALSE,
                        advanced |-> {}]]
    /\ UNCHANGED <<world_size, robots, running, update_thread, mqtt, subs, callerPc,
                   lastCall, handler, msgs, whole, lastReadWhole, lastMsg, poseAtStop,
                   published, op>>

\* while self.running: measure dt and begin a pass, or leave the loop
LoopCheck(t) ==
    /\ threads[t].pc = "check"
    /\ IF running
       THEN /\ passes < MaxPasses
            /\ passes' = passes + 1
            /\ threads' = [threads EXCEPT ![t] =
                               [pc |-> "read_left", i |-> 1, v_left |-> 0,
                                dt |-> MeasuredDt(threads[t].first), first |-> FALSE,
                                advanced |-> {}]]
       ELSE /\ threads' = [threads EXCEPT ![t].pc = "dead"]
            /\ passes' = passes
    /\ UNCHANGED <<world_size, robots, running, update_thread, mqtt, subs, callerPc,
                   lastCall, handler, msgs, whole, lastReadWhole, lastMsg, poseAtStop,
                   published, op>>

\* update_position: v_left = self.left_motor_power * self.max_speed
LoopReadLeft(t) ==
    /\ threads[t].pc = "read_left"
    /\ threads' = [threads EXCEPT ![t].pc = "advance",
                                  ![t].v_left = robots[threads[t].i].left_motor_power]
    /\ UNCHANGED <<world_size, robots, running, update_thread, mqtt, subs, callerPc,
                   lastCall, handler, passes, msgs, whole, lastReadWhole, lastMsg,
                   poseAtStop, published, op>>

\* update_position from v_right = ... to its end, with the left power read before
LoopAdvance(t) ==
    /\ threads[t].pc = "advance"
    /\ LET i == threads[t].i
           seen == [robots[i] EXCEPT !.left_motor_power = threads[t].v_left]
           moved == UpdatePosition(seen, threads[t].dt)
       IN  /\ robots' = [robots EXCEPT ![i].x = moved.x, ![i].y = moved.y,
                                       ![i].orientation = moved.orientation]
           /\ lastReadWhole' = (MotorPair(seen) \in WholePairs(i))
    /\ threads' = [threads EXCEPT ![t].pc = "publish", ![t].v_left = 0,
                                  ![t].advanced = @ \cup {threads[t].i}]
    /\ UNCHANGED <<world_size, running, update_thread, mqtt, subs, callerPc, lastCall,
                   handler, passes, msgs, whole, lastMsg, poseAtStop, published, op>>

\* a loop that publishes after its for loop, the last robot only
LoopPublishLastOnly(t) ==
    /\ threads[t].pc = "publish"
    /\ published' = IF threads[t].i < Len(robots)
                    THEN published
                    ELSE [published EXCEPT ![threads[t].i] = @ + 1]
    /\ threads' = IF threads[t].i < Len(robots)
                  THEN [threads EXCEPT ![t].pc = "read_left", ![t].i = @ + 1]
                  ELSE [threads EXCEPT ![t] = [pc |-> "sleep", i |-> 0, dt |-> 0,
                                               v_left |-> 0, first |-> FALSE,
                                               advanced |-> {}]]
    /\ UNCHANGED <<world_size, robots, running, update_thread, mqtt, subs, callerPc,
                   lastCall, handler, passes, msgs, whole, lastReadWhole, lastMsg,
                   poseAtStop, op>>

\* _publish_robot_status(robot), then the next robot or time.sleep(1.0)
LoopPublish(t) ==
    /\ threads[t].pc = "publish"
    /\ published' = [published EXCEPT ![threads[t].i] = @ + 1]
    /\ threads' = IF threads[t].i < Len(robots)
                  THEN [threads EXCEPT ![t].pc = "read_left", ![t].i = @ + 1]
                  ELSE [threads EXCEPT ![t] = [pc |-> "sleep", i |-> 0, dt |-> 0,
                                               v_left |-> 0, first |-> FALSE,
                                               advanced |-> {}]]
    /\ UNCHANGED <<world_size, robots, running, update_thread, mqtt, subs, callerPc,
                   lastCall, handler, passes, msgs, whole, lastReadWhole, lastMsg,
                   poseAtStop, op>>

\* time.sleep(1.0) returns
LoopSleep(t) ==
    /\ threads[t].pc = "sleep"
    /\ threads' = [threads EXCEPT ![t].pc = "check"]
    /\ UNCHANGED <<world_size, robots, running, update_thread, mqtt, subs, callerPc,
                   lastCall, handler, passes, msgs, whole, lastReadWhole, lastMsg,
                   poseAtStop, published, op>>

-----------------------------------------------------------------------------
(* RobotWorld.start and RobotWorld.stop, called one after the other by one caller *)

\* mutant: start() without "if self.running: return"
StartAlways ==
    /\ callerPc = "idle"
    /\ lastCall' = "start"
    /\ Len(threads) < MaxThreads
    /\ running' = TRUE
    /\ callerPc' = "start_spawn"
    /\ UNCHANGED <<world_size, robots, update_thread, threads, mqtt, subs, handler,
                   passes, msgs, whole, lastReadWhole, lastMsg, poseAtStop, published, op>>

\* start(): return when running, else self.running = True
Start ==
    /\ callerPc = "idle"
    /\ lastCall' = "start"
    /\ IF running
       THEN UNCHANGED <<running, callerPc>>
       ELSE /\ Len(threads) < MaxThreads
            /\ running' = TRUE
            /\ callerPc' = "start_spawn"
    /\ UNCHANGED <<world_size, robots, update_thread, threads, mqtt, subs, handler,
                   passes, msgs, whole, lastReadWhole, lastMsg, poseAtStop, published, op>>

\* start(): create and start the update thread, return
StartSpawn ==
    /\ callerPc = "start_spawn"
    /\ threads' = Append(threads, NewThread)
    /\ update_thread' = Len(threads) + 1
    /\ callerPc' = "idle"
    /\ UNCHANGED <<world_size, robots, running, mqtt, subs, lastCall, handler, passes,
                   msgs, whole, lastReadWhole, lastMsg, poseAtStop, published, op>>

\* stop(): self.running = False
Stop ==
    /\ callerPc = "idle"
    /\ lastCall' = "stop"
    /\ running' = FALSE
    /\ callerPc' = "stop_join"
    /\ UNCHANGED <<world_size, robots, update_thread, threads, mqtt, subs, handler,
                   passes, msgs, whole, lastReadWhole, lastMsg, poseAtStop, published, op>>

\* mutant: stop() does not join the update thread
StopJoinNoWait ==
    /\ callerPc = "stop_join"
    /\ callerPc' = "stop_mqtt"
    /\ UNCHANGED <<world_size, robots, running, update_thread, threads, mqtt, subs,
                   lastCall, handler, passes, msgs, whole, lastReadWhole, lastMsg,
                   poseAtStop, published, op>>

\* stop(): if self.update_thread: self.update_thread.join()
StopJoin ==
    /\ callerPc = "stop_join"
    /\ IF update_thread = 0 THEN TRUE ELSE threads[update_thread].pc = "dead"
    /\ callerPc' = "stop_mqtt"
    /\ UNCHANGED <<world_size, robots, running, update_thread, threads, mqtt, subs,
                   lastCall, handler, passes, msgs, whole, lastReadWhole, lastMsg,
                   poseAtStop, published, op>>

\* stop(): loop_stop() waits for a running callback, then disconnect(); stop returns
StopMqtt ==
    /\ callerPc = "stop_mqtt"
    /\ handler.pc = "idle"
    /\ mqtt' = [loop |-> IF mqtt.loop = "running" THEN "stopped" ELSE mqtt.loop,
                conn |-> "disconnected"]
    /\ poseAtStop' = Poses(robots)
    /\ callerPc' = "idle"
    /\ UNCHANGED <<world_size, robots, running, update_thread, threads, subs, lastCall,
                   handler, passes, msgs, whole, lastReadWhole, lastMsg, published, op>>

Next ==
    \/ OnMqttConnect
    \/ OnMqttMessage
    \/ OnMqttMessageRight
    \/ \E t \in DOMAIN threads :
          \/ LoopBegin(t)
          \/ LoopCheck(t)
          \/ LoopReadLeft(t)
          \/ LoopAdvance(t)
          \/ LoopPublish(t)
          \/ LoopSleep(t)
    \/ Start
    \/ StartSpawn
    \/ Stop
    \/ StopJoin
    \/ StopMqtt

Spec == Init /\ [][Next]_vars

\* a step of a loop thread
LoopThread ==
    \E t \in DOMAIN threads :
        \/ LoopBegin(t)
        \/ LoopCheck(t)
        \/ LoopReadLeft(t)
        \/ LoopAdvance(t)
        \/ LoopPublish(t)
        \/ LoopSleep(t)

\* Every started thread keeps being scheduled: the loop thread takes its next step,
\* a callback that has begun process_command finishes it, and stop() goes on when
\* the join or loop_stop() it waits in can return.
Fairness ==
    /\ WF_vars(LoopThread)
    /\ WF_vars(OnMqttMessageRight)
    /\ WF_vars(StopJoin \/ StopMqtt)

FairSpec == Spec /\ Fairness

-----------------------------------------------------------------------------
(* Claims about the RobotWorld, checked under Spec. *)

\* a structured command whose two fields are numbers
Numeric(command) ==
    command.kind = "dict" /\ command.left.t = "num" /\ command.right.t = "num"

\* C1: when _on_mqtt_message has handled a message on a subscribed topic
\* robots/{k}/command that carries {"left": a, "right": b} with numbers a and b,
\* robot k's motor powers are (clamp(a), clamp(b)).
C1_SubscribedCommandDispatched ==
    (handler.pc = "idle" /\ lastMsg # NoMsg /\ Numeric(lastMsg.command))
        => \A i \in DOMAIN robots :
              robots[i].id = lastMsg.robot_id
                  => /\ robots[i].left_motor_power = Nearest(lastMsg.command.left.v)
                     /\ robots[i].right_motor_power = Nearest(lastMsg.command.right.v)

\* C2: every update_position reads a (left, right) motor pair that one whole
\* process_command call has left (or the initial (0, 0)), never the left power of
\* one call with the right power of another.
C2_ReadsWholeMotorPair == lastReadWhole

\* stop() has returned and start() has not been called since
StopReturned == callerPc = "idle" /\ lastCall = "stop"

\* this step is an update_position or a status publication of some loop thread
TickStep ==
    \E t \in DOMAIN threads :
        /\ threads[t].pc \in {"advance", "publish"}
        /\ threads'[t].pc # threads[t].pc

\* C4: when stop() has returned no pass of the update loop is in flight, and until
\* start() is called no robot is advanced and no status is published.
C4_ShutdownBarrier ==
    /\ [](StopReturned => \A t \in DOMAIN threads : ~InPass(t))
    /\ [][StopReturned => (~TickStep /\ published' = published
                           /\ Poses(robots') = Poses(robots))]_vars

\* C4 witness: stop() has returned after the loop has made its passes and published.
C4_Witness ==
    /\ StopReturned
    /\ passes = MaxPasses
    /\ \A i \in DOMAIN robots : published[i] = MaxPasses

LiveThreads == {t \in DOMAIN threads : Live(t)}

\* C5: with start() and stop() called one after the other, at most one update loop
\* thread is alive at any time, exactly one once start() has returned, and no robot's
\* status has been published more often than passes were begun.
C5_SingleTickLoop ==
    /\ Cardinality(LiveThreads) <= 1
    /\ (callerPc = "idle" /\ running) => Cardinality(LiveThreads) = 1
    /\ \A i \in DOMAIN robots : published[i] <= passes

\* C5 witness: start() has returned a second time, its thread is the one alive.
C5_Witness ==
    /\ callerPc = "idle" /\ lastCall = "start" /\ running
    /\ Len(threads) = 2
    /\ LiveThreads = {2}

\* the formation places of _initialize_robots
Formation == [i \in DOMAIN robots |->
                 LET r == InitialRobot(i - 1, Len(robots), world_size, 0)
                 IN  <<r.x, r.y>>]

\* C6: when the loop of a start() begins, every robot's pose is the one it had when
\* the stop() before returned (or at construction), and once start() has returned
\* an update loop is running.
C6_RestartPreservesPoses ==
    /\ \A t \in DOMAIN threads : threads[t].pc = "begin" => Poses(robots) = poseAtStop
    /\ (callerPc = "idle" /\ lastCall = "start") => (running /\ LiveThreads # {})

\* C6 witness: robots have moved, stop() has returned, and the loop of the next
\* start() begins.
C6_Witness ==
    /\ Len(threads) = 2
    /\ threads[2].pc = "begin"
    /\ lastCall = "start"
    /\ \E i \in DOMAIN robots : <<robots[i].x, robots[i].y>> # Formation[i]

\* the loop threads that are in a pass and have not yet published robot i in it
Unpublished(i) == {t \in DOMAIN threads : InPass(t) /\ threads[t].i <= i}

\* every robot's status has been published once in every pass that is over, and in
\* the pass in flight once or not yet
OncePerPass ==
    \A i \in DOMAIN robots : published[i] = passes - Cardinality(Unpublished(i))

\* this step publishes the status of robot i
Publishes(i) == published'[i] # published[i]

\* C12 as claimed: each pass publishes each robot's status exactly once, and it
\* publishes only after update_position has returned for every robot.
C12_PublishAfterAllAdvanced ==
    /\ []OncePerPass
    /\ [][\A i \in DOMAIN robots :
             Publishes(i)
                 => \E t \in DOMAIN threads :
                       /\ threads[t].pc = "publish" /\ threads[t].i = i
                       /\ threads[t].advanced = DOMAIN robots]_vars

\* C12 amended: each pass publishes each robot's status exactly once, and it
\* publishes robot i when update_position has returned for robot i and for the
\* robots before it in the list, and for no robot after it.
C12_PublishAfterOwnAdvance ==
    /\ []OncePerPass
    /\ [][\A i \in DOMAIN robots :
             Publishes(i)
                 => /\ published'[i] = published[i] + 1
                    /\ \E t \in DOMAIN threads :
                          /\ threads[t].pc = "publish" /\ threads[t].i = i
                          /\ threads[t].advanced = 1..i]_vars

\* C12 witness: in a second pass the first robot's status has been published and
\* the second robot has not been advanced yet.
C12_Witness ==
    /\ passes = 2
    /\ \E t \in DOMAIN threads :
          /\ threads[t].pc = "read_left" /\ threads[t].i = 2
          /\ threads[t].advanced = {1}
    /\ published[1] = 2
    /\ published[2] = 1

\* C13: a message for an id no robot has never reaches process_command, and the
\* callback that handles it returns having left every robot's motor powers and pose,
\* the running flag and the loop threads as they were.
C13_UnknownIdIgnored ==
    /\ [](handler.pc = "right" => ~UnknownId(handler.robot_id))
    /\ [][(msgs' = msgs + 1 /\ handler'.pc = "idle"
           /\ lastMsg' # NoMsg /\ UnknownId(lastMsg'.robot_id))
            => /\ robots' = robots
               /\ running' = running
               /\ threads' = threads]_vars

\* C13 witness: a message for an id no robot has was handled while the loop runs and
\* a robot has motor powers an earlier command gave it.
C13_Witness ==
    /\ lastMsg # NoMsg /\ UnknownId(lastMsg.robot_id)
    /\ handler.pc = "idle"
    /\ running /\ LiveThreads # {}
    /\ \E i \in DOMAIN robots : MotorPair(robots[i]) # <<0, 0>>

\* the callback is in process_command for a payload that is the text s or the JSON
\* string "s"
StopToken == /\ handler.pc = "right"
             /\ handler.form \in {"raw", "string"}
             /\ handler.text = "s"

\* C15: when process_command returns for a payload that is the raw text s or the
\* JSON string "s", the robot's motor powers are (0.0, 0.0), whatever they were.
C15_StopTokenStops ==
    [][(StopToken /\ handler'.pc = "idle")
        => MotorPair(robots'[FindRobot(handler.robot_id)]) = <<0, 0>>]_vars

\* C15 witness: the JSON string "s" is being processed for a robot whose powers an
\* earlier command had set to (1.0, -1.0); the left power is already 0.
C15_Witness ==
    /\ StopToken /\ handler.form = "string"
    /\ MotorPair(robots[FindRobot(handler.robot_id)]) = <<0, -FullPower>>

\* C19: stop() on a world that was never started leaves running false and leaves
\* the robots, the MQTT client and its subscriptions as they were.
C19_StopWhileStoppedNoOp ==
    [][(callerPc' # callerPc /\ lastCall' = "stop" /\ ~running /\ threads = <<>>)
        => /\ running' = FALSE
           /\ robots' = robots
           /\ mqtt' = mqtt
           /\ subs' = subs]_vars

\* this step is one of the callback _on_mqtt_message
HandlerStep == msgs' # msgs \/ handler' # handler

\* the robot id of the message the callback hands to process_command in this step,
\* -1 when it hands over none
Addressed == IF handler.pc = "right" THEN handler.robot_id
             ELSE IF handler'.pc = "right" THEN handler'.robot_id ELSE -1

\* this step is one of a loop thread
LoopStep == \E t \in DOMAIN threads : threads'[t] # threads[t]

\* C20: handling a command message for robot k changes no motor power but robot
\* k's, no pose and not the running flag; a step of the update loop changes no
\* motor power.
C20_DispatchFrame ==
    [][/\ HandlerStep
            => /\ Poses(robots') = Poses(robots)
               /\ running' = running
               /\ \A i \in DOMAIN robots :
                     MotorPair(robots'[i]) # MotorPair(robots[i])
                         => robots[i].id = Addressed
       /\ LoopStep
            => \A i \in DOMAIN robots : MotorPair(robots'[i]) = MotorPair(robots[i])]_vars

\* C20 witness: a command has set the second robot's motor powers, the first robot's
\* are still (0, 0), and the loop has moved the second robot since.
C20_Witness ==
    /\ handler.pc = "idle" /\ msgs > 0 /\ passes = 2
    /\ MotorPair(robots[1]) = <<0, 0>>
    /\ MotorPair(robots[2]) = <<FullPower, -FullPower>>
    /\ Poses(robots)[2] # <<Formation[2][1], Formation[2][2], 400>>

\* stop() has been called and has not returned
Stopping == callerPc \in {"stop_join", "stop_mqtt"}

\* C18: every call of stop() returns, and once stop() has cleared the running flag
\* the loop begins no pass: it finishes the pass it is in, if any, and exits.
C18_ShutdownTerminates ==
    /\ Stopping ~> StopReturned
    /\ [][~running => passes' = passes]_vars

\* C18 witness: stop() was called during the loop's first pass and has returned; the
\* thread has finished that pass and is dead.
C18_Witness ==
    /\ StopReturned
    /\ passes = 1
    /\ update_thread # 0
    /\ threads[update_thread].pc = "dead"
    /\ \A i \in DOMAIN robots : published[i] = 1

=============================================================================
